---- MODULE Spec2Model ----
(***************************************************************************)
(* Model of the Phil Fisher scoring engine (src/agents/analysis.py), the   *)
(* aggregation and cache handling of phil_fisher_agent_core                *)
(* (src/agents/agent.py) and update_preloaded_cache                        *)
(* (src/agents/update_preloaded_cache.py).                                 *)
(*                                                                         *)
(* Numbers.  Python floats are modelled by exact rational arithmetic on    *)
(* integers:                                                               *)
(*   - money-like fields (revenue, net_income, ...) and the market cap are *)
(*     integers;                                                           *)
(*   - operating_margin and gross_margin are in percentage points, so the  *)
(*     source's 0.5 is 50 here and its 0.02 is 2;                          *)
(*   - a ratio x / y is never computed: every comparison  x / y > p / q    *)
(*     is done by cross-multiplication;                                    *)
(*   - a category score s is stored as s * ScoreUnit and the composite c   *)
(*     as c * ScoreUnit * WeightUnit, so every score is an integer.        *)
(* Python values are records with a "kind" field: None, Num(x), List(s),   *)
(* and the string shapes the agent distinguishes.  A line item, a trade    *)
(* and a news item are records keyed by field name (Python dicts).         *)
(* The details string of a category result is the sequence of the branch   *)
(* messages that "; ".join(details) concatenates, each named by a tag;     *)
(* the formatted figures inside the messages are left out.                 *)
(***************************************************************************)
EXTENDS Integers, Sequences, FiniteSets, TLC

---------------------------------------------------------------------------
(* State *)

VARIABLES
    tickers,            \* state.data["tickers"]
    preloaded,          \* state.data["preloaded"], the dict the agent updates in place
    remote,             \* what the four data tools return for each ticker
    pc,                 \* "loop", "done" or "raised"
    idx,                \* position of the for-loop over tickers
    raw_results,        \* the tool outputs fetched for the current ticker
    pli, mcap, insiders, news,      \* the four inputs as handed to the analyzers
    growth_quality, margins_stability, mgmt_efficiency,
    fisher_valuation, insider_activity, sentiment_analysis,
    analysis_data,      \* ticker -> composite result
    state,              \* state.analysis_data and state.analyst_signals
    tool_calls,         \* the tool invocations of this run so far, in order
    error,              \* the exception that ended the run, or None
    again,              \* the six results of calling the analyzers once more, or <<>>
    run                 \* how many times phil_fisher_agent_core was entered

vars == <<tickers, preloaded, remote, pc, idx, raw_results, pli, mcap, insiders,
          news, growth_quality, margins_stability, mgmt_efficiency,
          fisher_valuation, insider_activity, sentiment_analysis,
          analysis_data, state, tool_calls, error, again, run>>

results == <<growth_quality, margins_stability, mgmt_efficiency,
             fisher_valuation, insider_activity, sentiment_analysis>>

---------------------------------------------------------------------------
(* Python values *)

None == [kind |-> "none"]

Num(x) == [kind |-> "num", val |-> x]

List(s) == [kind |-> "list", items |-> s]

\* A string that json.loads turns into the list s.
JsonText(s) == [kind |-> "str", form |-> "json_list", items |-> s]

\* A string of n characters that is no JSON document and no number.
PlainText(n) == [kind |-> "str", form |-> "text", len |-> n]

\* A string float() accepts once its commas are removed, e.g. "1,500".
NumText(x) == [kind |-> "str", form |-> "number", val |-> x]

\* The JSON text of an object with a numeric "market_cap" member.
JsonCapText(x) == [kind |-> "str", form |-> "json_cap", val |-> x]

\* The JSON text of an object that has no "market_cap" member.
JsonNoCapText == [kind |-> "str", form |-> "json_nocap"]

\* The JSON text of an object whose "market_cap" member is no number.
JsonBadCapText == [kind |-> "str", form |-> "json_badcap"]

\* One character of a string, as iteration over the string yields it.
Char == [kind |-> "char"]

IsStr(x) == x.kind = "str"

IsNum(x) == x.kind = "num"

\* What an uncaught exception leaves in place of a result.
Raised(exc) == [kind |-> "raised", exc |-> exc]

IsRaised(r) == "kind" \in DOMAIN r /\ r.kind = "raised"

\* The elements a Python for-loop or comprehension sees in container c.
Elems(c) ==
    IF c.kind = "list" THEN c.items
    ELSE IF c.kind = "str" /\ c.form = "text" THEN [i \in 1..c.len |-> Char]
    ELSE <<>>

\* len(c) and iteration raise TypeError on None and on a number.
HasLen(c) == c.kind \in {"list", "str"}

---------------------------------------------------------------------------
(* Arithmetic helpers *)

Min2(a, b) == IF a < b THEN a ELSE b

Abs(x) == IF x < 0 THEN -x ELSE x

RECURSIVE SumSeq(_)
SumSeq(s) == IF s = <<>> THEN 0 ELSE Head(s) + SumSeq(Tail(s))

\* x / y as the analyzers compute it where they guard the divisor with
\* "y if y else 1e-9": eps marks the divisor 1e-9, otherwise n / d with d > 0.
Quot(x, y) ==
    IF y = 0 THEN [n |-> x, d |-> 1, eps |-> TRUE]
    ELSE IF y > 0 THEN [n |-> x, d |-> y, eps |-> FALSE]
    ELSE [n |-> -x, d |-> -y, eps |-> FALSE]

\* r > p / q for q > 0 and 0 <= p / q < 10^9.  With the divisor 1e-9 the value
\* is n * 10^9 for an integer n, which exceeds p / q exactly when n >= 1.
RGt(r, p, q) == IF r.eps THEN r.n >= 1 ELSE r.n * q > p * r.d

\* r >= p / q, same conditions.
RGe(r, p, q) ==
    IF r.eps THEN (IF p = 0 THEN r.n >= 0 ELSE r.n >= 1) ELSE r.n * q >= p * r.d

RLt(r, p, q) == ~RGe(r, p, q)

RLe(r, p, q) == ~RGt(r, p, q)

\* One category score is stored multiplied by ScoreUnit (raw / 9, raw / 6 and
\* raw / 4 are then all integers).
ScoreUnit == 4 * 9

\* FinalScore as a percentage: "* 100" for "* 10", and no cap.
FinalScorePercent(raw_score, max_raw) == (raw_score * 100 * ScoreUnit) \div max_raw

\* min(10, (raw_score / max_raw) * 10)
FinalScore(raw_score, max_raw) ==
    Min2(10 * ScoreUnit, (raw_score * 10 * ScoreUnit) \div max_raw)

---------------------------------------------------------------------------
(* Record accessor *)

v_(item, name) ==
    IF item = None THEN None
    ELSE IF "kind" \in DOMAIN item THEN None      \* getattr(item, name, None)
    ELSE IF name \in DOMAIN item THEN item[name]   \* item.get(name)
    ELSE None

\* [_v(fi, name) for fi in items if _v(fi, name) is not None], as numbers
NonNull(items, name) ==
    LET col == [i \in 1..Len(items) |-> v_(items[i], name)]
        kept == SelectSeq(col, LAMBDA x : x # None)
    IN [i \in 1..Len(kept) |-> kept[i].val]

Result(score, details) == [score |-> score, details |-> details]

---------------------------------------------------------------------------
(* analyze_fisher_growth_quality *)

\* revenue_growth_check with ">=" for ">" in the top band.
revenue_growth_check_inclusive(revenues) ==
    IF Len(revenues) >= 2 THEN
        LET latest_rev == revenues[1]
            oldest_rev == revenues[Len(revenues)]
        IN IF oldest_rev # 0 /\ oldest_rev > 0 THEN
               LET rev_growth == Quot(latest_rev - oldest_rev, Abs(oldest_rev))
               IN IF RGe(rev_growth, 80, 100) THEN [pts |-> 3, msg |-> "rev_very_strong"]
                  ELSE IF RGt(rev_growth, 40, 100) THEN [pts |-> 2, msg |-> "rev_moderate"]
                  ELSE IF RGt(rev_growth, 10, 100) THEN [pts |-> 1, msg |-> "rev_slight"]
                  ELSE [pts |-> 0, msg |-> "rev_minimal_or_negative"]
           ELSE [pts |-> 0, msg |-> "rev_oldest_zero_or_negative"]
    ELSE [pts |-> 0, msg |-> "rev_not_enough_points"]

\* The revenue-growth check: points awarded and the message appended.
revenue_growth_check(revenues) ==
    IF Len(revenues) >= 2 THEN
        LET latest_rev == revenues[1]
            oldest_rev == revenues[Len(revenues)]
        IN IF oldest_rev # 0 /\ oldest_rev > 0 THEN
               LET rev_growth == Quot(latest_rev - oldest_rev, Abs(oldest_rev))
               IN IF RGt(rev_growth, 80, 100) THEN [pts |-> 3, msg |-> "rev_very_strong"]
                  ELSE IF RGt(rev_growth, 40, 100) THEN [pts |-> 2, msg |-> "rev_moderate"]
                  ELSE IF RGt(rev_growth, 10, 100) THEN [pts |-> 1, msg |-> "rev_slight"]
                  ELSE [pts |-> 0, msg |-> "rev_minimal_or_negative"]
           ELSE [pts |-> 0, msg |-> "rev_oldest_zero_or_negative"]
    ELSE [pts |-> 0, msg |-> "rev_not_enough_points"]

\* The EPS-growth check.  abs(oldest_eps) > 1e-9 is oldest_eps # 0 on integers.
eps_growth_check(eps_values) ==
    IF Len(eps_values) >= 2 THEN
        LET latest_eps == eps_values[1]
            oldest_eps == eps_values[Len(eps_values)]
        IN IF Abs(oldest_eps) > 0 THEN
               LET eps_growth == Quot(latest_eps - oldest_eps, Abs(oldest_eps))
               IN IF RGt(eps_growth, 80, 100) THEN [pts |-> 3, msg |-> "eps_very_strong"]
                  ELSE IF RGt(eps_growth, 40, 100) THEN [pts |-> 2, msg |-> "eps_moderate"]
                  ELSE IF RGt(eps_growth, 10, 100) THEN [pts |-> 1, msg |-> "eps_slight"]
                  ELSE [pts |-> 0, msg |-> "eps_minimal_or_negative"]
           ELSE [pts |-> 0, msg |-> "eps_oldest_near_zero"]
    ELSE [pts |-> 0, msg |-> "eps_not_enough_points"]

\* rnd_check with "<" for "<=" at the upper end of the top band.
rnd_check_exclusive(rnd_values, revenues) ==
    IF rnd_values # <<>> /\ revenues # <<>> /\ Len(rnd_values) = Len(revenues) THEN
        LET recent_rnd == rnd_values[1]
            rnd_ratio == Quot(recent_rnd, revenues[1])
        IN IF RGe(rnd_ratio, 3, 100) /\ RLt(rnd_ratio, 15, 100)
               THEN [pts |-> 3, msg |-> "rnd_significant"]
           ELSE IF RGt(rnd_ratio, 15, 100) THEN [pts |-> 2, msg |-> "rnd_very_high"]
           ELSE IF RGt(rnd_ratio, 0, 1) THEN [pts |-> 1, msg |-> "rnd_low_positive"]
           ELSE [pts |-> 0, msg |-> "rnd_not_meaningful"]
    ELSE [pts |-> 0, msg |-> "rnd_insufficient"]

\* The R&D-intensity check.
rnd_check(rnd_values, revenues) ==
    IF rnd_values # <<>> /\ revenues # <<>> /\ Len(rnd_values) = Len(revenues) THEN
        LET recent_rnd == rnd_values[1]
            rnd_ratio == Quot(recent_rnd, revenues[1])
        IN IF RGe(rnd_ratio, 3, 100) /\ RLe(rnd_ratio, 15, 100)
               THEN [pts |-> 3, msg |-> "rnd_significant"]
           ELSE IF RGt(rnd_ratio, 15, 100) THEN [pts |-> 2, msg |-> "rnd_very_high"]
           ELSE IF RGt(rnd_ratio, 0, 1) THEN [pts |-> 1, msg |-> "rnd_low_positive"]
           ELSE [pts |-> 0, msg |-> "rnd_not_meaningful"]
    ELSE [pts |-> 0, msg |-> "rnd_insufficient"]

\* too_few_items that lets a single item through.
too_few_items_off_by_one(items) == Len(items) < 1

\* len(financial_line_items) < 2
too_few_items(items) == Len(items) < 2

analyze_fisher_growth_quality(financial_line_items) ==
    IF ~HasLen(financial_line_items) THEN Raised("TypeError")
    ELSE
    LET items == Elems(financial_line_items) IN
    IF too_few_items(items) THEN Result(0, <<"growth_insufficient_data">>)
    ELSE
        LET revenues == NonNull(items, "revenue")
            eps_values == NonNull(items, "earnings_per_share")
            rnd_values == NonNull(items, "research_and_development")
            rev == revenue_growth_check(revenues)
            eps == eps_growth_check(eps_values)
            rnd == rnd_check(rnd_values, revenues)
            raw_score == rev.pts + eps.pts + rnd.pts
        IN Result(FinalScore(raw_score, 9), <<rev.msg, eps.msg, rnd.msg>>)

---------------------------------------------------------------------------
(* analyze_margins_stability *)

op_margin_trend_check(op_margins) ==
    IF Len(op_margins) >= 2 THEN
        LET oldest_op_margin == op_margins[Len(op_margins)]
            newest_op_margin == op_margins[1]
        IN IF newest_op_margin >= oldest_op_margin /\ oldest_op_margin > 0
               THEN [pts |-> 2, msg |-> "opm_stable_or_improving"]
           ELSE IF newest_op_margin # 0 /\ newest_op_margin > 0
               THEN [pts |-> 1, msg |-> "opm_positive_declined"]
           ELSE [pts |-> 0, msg |-> "opm_negative_or_uncertain"]
    ELSE [pts |-> 0, msg |-> "opm_not_enough_points"]

\* Margins are percentage points: 0.5 is 50 and 0.3 is 30.
gross_margin_check(gm_values) ==
    IF gm_values # <<>> THEN
        LET recent_gm == gm_values[1]
        IN IF recent_gm > 50 THEN [pts |-> 2, msg |-> "gm_strong"]
           ELSE IF recent_gm > 30 THEN [pts |-> 1, msg |-> "gm_moderate"]
           ELSE [pts |-> 0, msg |-> "gm_low"]
    ELSE [pts |-> 0, msg |-> "gm_no_data"]

\* statistics.pstdev(xs) < t, squared: n * sum(x^2) - sum(x)^2 < t^2 * n^2.
PstdevLt(xs, t) ==
    LET n == Len(xs)
        s1 == SumSeq(xs)
        s2 == SumSeq([i \in 1..n |-> xs[i] * xs[i]])
    IN n * s2 - s1 * s1 < t * t * n * n

op_margin_volatility_check(op_margins) ==
    IF Len(op_margins) >= 3 THEN
        IF PstdevLt(op_margins, 2) THEN [pts |-> 2, msg |-> "opm_extremely_stable"]
        ELSE IF PstdevLt(op_margins, 5) THEN [pts |-> 1, msg |-> "opm_reasonably_stable"]
        ELSE [pts |-> 0, msg |-> "opm_volatility_high"]
    ELSE [pts |-> 0, msg |-> "opm_not_enough_for_volatility"]

analyze_margins_stability(financial_line_items) ==
    IF ~HasLen(financial_line_items) THEN Raised("TypeError")
    ELSE
    LET items == Elems(financial_line_items) IN
    IF too_few_items(items) THEN Result(0, <<"margins_insufficient_data">>)
    ELSE
        LET op_margins == NonNull(items, "operating_margin")
            gm_values == NonNull(items, "gross_margin")
            trend == op_margin_trend_check(op_margins)
            gm == gross_margin_check(gm_values)
            vol == op_margin_volatility_check(op_margins)
            raw_score == trend.pts + gm.pts + vol.pts
        IN Result(FinalScore(raw_score, 6), <<trend.msg, gm.msg, vol.msg>>)

---------------------------------------------------------------------------
(* analyze_management_efficiency_leverage *)

\* roe_check with ">=" for ">" in the top band.
roe_check_inclusive(ni_values, eq_values) ==
    IF ni_values # <<>> /\ eq_values # <<>> /\ Len(ni_values) = Len(eq_values) THEN
        LET recent_ni == ni_values[1]
        IN IF recent_ni # 0 /\ recent_ni > 0 THEN
               LET roe == Quot(recent_ni, eq_values[1])
               IN IF RGe(roe, 2, 10) THEN [pts |-> 3, msg |-> "roe_high"]
                  ELSE IF RGt(roe, 1, 10) THEN [pts |-> 2, msg |-> "roe_moderate"]
                  ELSE IF RGt(roe, 0, 1) THEN [pts |-> 1, msg |-> "roe_low_positive"]
                  ELSE [pts |-> 0, msg |-> "roe_near_zero_or_negative"]
           ELSE [pts |-> 0, msg |-> "roe_net_income_not_positive"]
    ELSE [pts |-> 0, msg |-> "roe_insufficient"]

roe_check(ni_values, eq_values) ==
    IF ni_values # <<>> /\ eq_values # <<>> /\ Len(ni_values) = Len(eq_values) THEN
        LET recent_ni == ni_values[1]
        IN IF recent_ni # 0 /\ recent_ni > 0 THEN
               LET roe == Quot(recent_ni, eq_values[1])
               IN IF RGt(roe, 2, 10) THEN [pts |-> 3, msg |-> "roe_high"]
                  ELSE IF RGt(roe, 1, 10) THEN [pts |-> 2, msg |-> "roe_moderate"]
                  ELSE IF RGt(roe, 0, 1) THEN [pts |-> 1, msg |-> "roe_low_positive"]
                  ELSE [pts |-> 0, msg |-> "roe_near_zero_or_negative"]
           ELSE [pts |-> 0, msg |-> "roe_net_income_not_positive"]
    ELSE [pts |-> 0, msg |-> "roe_insufficient"]

debt_to_equity_check(debt_values, eq_values) ==
    IF debt_values # <<>> /\ eq_values # <<>> /\ Len(debt_values) = Len(eq_values) THEN
        LET dte == Quot(debt_values[1], eq_values[1])
        IN IF RLt(dte, 3, 10) THEN [pts |-> 2, msg |-> "dte_low"]
           ELSE IF RLt(dte, 1, 1) THEN [pts |-> 1, msg |-> "dte_manageable"]
           ELSE [pts |-> 0, msg |-> "dte_high"]
    ELSE [pts |-> 0, msg |-> "dte_insufficient"]

fcf_consistency_check(fcf_values) ==
    IF Len(fcf_values) >= 2 THEN
        LET positive_fcf_count ==
                Len(SelectSeq(fcf_values, LAMBDA x : x # 0 /\ x > 0))
            ratio == Quot(positive_fcf_count, Len(fcf_values))
        IN IF RGt(ratio, 8, 10) THEN [pts |-> 1, msg |-> "fcf_majority_positive"]
           ELSE [pts |-> 0, msg |-> "fcf_inconsistent"]
    ELSE [pts |-> 0, msg |-> "fcf_insufficient"]

analyze_management_efficiency_leverage(financial_line_items) ==
    IF ~HasLen(financial_line_items) THEN Raised("TypeError")
    ELSE
    LET items == Elems(financial_line_items) IN
    IF items = <<>> THEN Result(0, <<"mgmt_no_data">>)
    ELSE
        LET ni_values == NonNull(items, "net_income")
            eq_values == NonNull(items, "shareholders_equity")
            debt_values == NonNull(items, "total_debt")
            fcf_values == NonNull(items, "free_cash_flow")
            roe == roe_check(ni_values, eq_values)
            dte == debt_to_equity_check(debt_values, eq_values)
            fcf == fcf_consistency_check(fcf_values)
            raw_score == roe.pts + dte.pts + fcf.pts
        IN Result(FinalScore(raw_score, 6), <<roe.msg, dte.msg, fcf.msg>>)

---------------------------------------------------------------------------
(* analyze_fisher_valuation *)

\* pe_check with "<=" for "<" in both bands.
pe_check_inclusive(market_cap, net_incomes) ==
    IF net_incomes # <<>> /\ net_incomes[1] # 0 /\ net_incomes[1] > 0 THEN
        IF ~IsNum(market_cap) THEN Raised("TypeError")
        ELSE LET pe == Quot(market_cap.val, net_incomes[1])
             IN IF RLe(pe, 20, 1) THEN [pts |-> 2, msg |-> "pe_attractive"]
                ELSE IF RLe(pe, 30, 1) THEN [pts |-> 1, msg |-> "pe_somewhat_high"]
                ELSE [pts |-> 0, msg |-> "pe_very_high"]
    ELSE [pts |-> 0, msg |-> "pe_no_positive_net_income"]

\* The P/E check: market_cap / recent_net_income raises TypeError when
\* market_cap is not a number.
pe_check(market_cap, net_incomes) ==
    IF net_incomes # <<>> /\ net_incomes[1] # 0 /\ net_incomes[1] > 0 THEN
        IF ~IsNum(market_cap) THEN Raised("TypeError")
        ELSE LET pe == Quot(market_cap.val, net_incomes[1])
             IN IF RLt(pe, 20, 1) THEN [pts |-> 2, msg |-> "pe_attractive"]
                ELSE IF RLt(pe, 30, 1) THEN [pts |-> 1, msg |-> "pe_somewhat_high"]
                ELSE [pts |-> 0, msg |-> "pe_very_high"]
    ELSE [pts |-> 0, msg |-> "pe_no_positive_net_income"]

\* The P/FCF check, symmetric to the P/E check.
pfcf_check(market_cap, fcf_values) ==
    IF fcf_values # <<>> /\ fcf_values[1] # 0 /\ fcf_values[1] > 0 THEN
        IF ~IsNum(market_cap) THEN Raised("TypeError")
        ELSE LET pfcf == Quot(market_cap.val, fcf_values[1])
             IN IF RLt(pfcf, 20, 1) THEN [pts |-> 2, msg |-> "pfcf_reasonable"]
                ELSE IF RLt(pfcf, 30, 1) THEN [pts |-> 1, msg |-> "pfcf_somewhat_high"]
                ELSE [pts |-> 0, msg |-> "pfcf_excessive"]
    ELSE [pts |-> 0, msg |-> "pfcf_no_positive_fcf"]

\* analyze_fisher_valuation without the "market_cap is None" guard.
analyze_fisher_valuation_unguarded(financial_line_items, market_cap) ==
    IF ~HasLen(financial_line_items) THEN Raised("TypeError")
    ELSE
    LET items == Elems(financial_line_items) IN
    IF items = <<>> THEN Result(0, <<"valuation_insufficient_data">>)
    ELSE
        LET net_incomes == NonNull(items, "net_income")
            fcf_values == NonNull(items, "free_cash_flow")
            pe == pe_check(market_cap, net_incomes)
            pfcf == pfcf_check(market_cap, fcf_values)
        IN IF IsRaised(pe) THEN pe
           ELSE IF IsRaised(pfcf) THEN pfcf
           ELSE Result(FinalScore(pe.pts + pfcf.pts, 4), <<pe.msg, pfcf.msg>>)

analyze_fisher_valuation(financial_line_items, market_cap) ==
    IF ~HasLen(financial_line_items) THEN Raised("TypeError")
    ELSE
    LET items == Elems(financial_line_items) IN
    IF items = <<>> \/ market_cap = None
        THEN Result(0, <<"valuation_insufficient_data">>)
    ELSE
        LET net_incomes == NonNull(items, "net_income")
            fcf_values == NonNull(items, "free_cash_flow")
            pe == pe_check(market_cap, net_incomes)
            pfcf == pfcf_check(market_cap, fcf_values)
        IN IF IsRaised(pe) THEN pe
           ELSE IF IsRaised(pfcf) THEN pfcf
           ELSE Result(FinalScore(pe.pts + pfcf.pts, 4), <<pe.msg, pfcf.msg>>)

---------------------------------------------------------------------------
(* analyze_insider_activity *)

\* "not x" for the containers and None
Falsy(x) == x = None \/ (HasLen(x) /\ Elems(x) = <<>>)

\* insider_band with ">=" for ">".
insider_band_inclusive(buys, sells) ==
    LET buy_ratio == Quot(buys, buys + sells)
    IN IF RGe(buy_ratio, 7, 10) THEN Result(8 * ScoreUnit, <<"insider_heavy_buying">>)
       ELSE IF RGe(buy_ratio, 4, 10) THEN Result(6 * ScoreUnit, <<"insider_moderate_buying">>)
       ELSE Result(4 * ScoreUnit, <<"insider_mostly_selling">>)

\* The band of buy_ratio = buys / total.
insider_band(buys, sells) ==
    LET buy_ratio == Quot(buys, buys + sells)
    IN IF RGt(buy_ratio, 7, 10) THEN Result(8 * ScoreUnit, <<"insider_heavy_buying">>)
       ELSE IF RGt(buy_ratio, 4, 10) THEN Result(6 * ScoreUnit, <<"insider_moderate_buying">>)
       ELSE Result(4 * ScoreUnit, <<"insider_mostly_selling">>)

analyze_insider_activity(insider_trades) ==
    IF Falsy(insider_trades) THEN Result(5 * ScoreUnit, <<"insider_no_data">>)
    ELSE
        LET shares == NonNull(Elems(insider_trades), "transaction_shares")
            buys == Len(SelectSeq(shares, LAMBDA x : x > 0))
            sells == Len(SelectSeq(shares, LAMBDA x : x < 0))
            total == buys + sells
        IN IF total = 0 THEN Result(5 * ScoreUnit, <<"insider_no_transactions">>)
           ELSE insider_band(buys, sells)

---------------------------------------------------------------------------
(* analyze_sentiment *)

\* A headline, as the sequence of its characters.
Text(cs) == [kind |-> "str", form |-> "chars", chars |-> cs]

Uppers == <<"A", "B", "C", "D", "E", "F", "G", "H", "I", "J", "K", "L", "M", "N", "O", "P", "Q", "R", "S", "T", "U", "V", "W", "X", "Y", "Z">>

Lowers == <<"a", "b", "c", "d", "e", "f", "g", "h", "i", "j", "k", "l", "m", "n", "o", "p", "q", "r", "s", "t", "u", "v", "w", "x", "y", "z">>

\* str.lower() on one character
lower_char(c) ==
    IF \E i \in 1..Len(Uppers) : Uppers[i] = c
        THEN Lowers[CHOOSE i \in 1..Len(Uppers) : Uppers[i] = c]
    ELSE c

lower(cs) == [i \in 1..Len(cs) |-> lower_char(cs[i])]

\* word in text
Contains(text, word) ==
    \E i \in 1..(Len(text) - Len(word) + 1) :
        SubSeq(text, i, i + Len(word) - 1) = word

negative_keywords ==
    << <<"l", "a", "w", "s", "u", "i", "t">>,
       <<"f", "r", "a", "u", "d">>,
       <<"n", "e", "g", "a", "t", "i", "v", "e">>,
       <<"d", "o", "w", "n", "t", "u", "r", "n">>,
       <<"d", "e", "c", "l", "i", "n", "e">>,
       <<"i", "n", "v", "e", "s", "t", "i", "g", "a", "t", "i", "o", "n">>,
       <<"r", "e", "c", "a", "l", "l">> >>

\* any(word in title_lower for word in negative_keywords), title being
\* _v(news, "title") or ""
is_negative(news_item) ==
    LET t == v_(news_item, "title")
        title == IF t = None THEN <<>> ELSE t.chars
        title_lower == lower(title)
    IN \E k \in 1..Len(negative_keywords) : Contains(title_lower, negative_keywords[k])

\* sentiment_band with ">=" for ">" in the first band.
sentiment_band_inclusive(negative_count, n) ==
    IF 10 * negative_count >= 3 * n THEN Result(3 * ScoreUnit, <<"sentiment_high_negative">>)
    ELSE IF negative_count > 0 THEN Result(6 * ScoreUnit, <<"sentiment_some_negative">>)
    ELSE Result(8 * ScoreUnit, <<"sentiment_mostly_positive">>)

\* The band of negative_count against len(news_items) * 0.3.
sentiment_band(negative_count, n) ==
    IF 10 * negative_count > 3 * n THEN Result(3 * ScoreUnit, <<"sentiment_high_negative">>)
    ELSE IF negative_count > 0 THEN Result(6 * ScoreUnit, <<"sentiment_some_negative">>)
    ELSE Result(8 * ScoreUnit, <<"sentiment_mostly_positive">>)

\* analyze_sentiment with hidden state: once a ticker has been analysed it
\* answers with the neutral default.
analyze_sentiment_remembering(news_items) ==
    IF idx > 1 \/ Falsy(news_items) THEN Result(5 * ScoreUnit, <<"sentiment_no_data">>)
    ELSE
        LET items == Elems(news_items)
            negative_count == Len(SelectSeq(items, is_negative))
        IN sentiment_band(negative_count, Len(items))

analyze_sentiment(news_items) ==
    IF Falsy(news_items) THEN Result(5 * ScoreUnit, <<"sentiment_no_data">>)
    ELSE
        LET items == Elems(news_items)
            negative_count == Len(SelectSeq(items, is_negative))
        IN sentiment_band(negative_count, Len(items))

---------------------------------------------------------------------------
(* phil_fisher_agent_core: normalisation, aggregation, signal *)

\* d.get(key) on a dict modelled as a function
Get(d, key) == IF key \in DOMAIN d THEN d[key] ELSE None

EmptyDict == <<>>

\* agent.py 71-82: a string market cap becomes a float when float() or the
\* "market_cap" member of its JSON object allows; otherwise it stays the string.
normalize_market_cap(m) ==
    IF IsStr(m) THEN
        IF m.form = "number" THEN Num(m.val)
        ELSE IF m.form = "json_cap" THEN Num(m.val)
        ELSE m
    ELSE m

\* agent.py 102-106: a string pli is replaced by json.loads(pli) when that works.
parse_pli(p) ==
    IF IsStr(p) THEN (IF p.form = "json_list" THEN List(p.items) ELSE p)
    ELSE p

\* Weights in hundredths: 0.30 is 30.
WeightUnit == 10 * 10

W_growth_quality == 30

W_margins_stability == 25

W_management_efficiency == 20

W_valuation == 15

W_insider_activity == 5

W_sentiment == 5

\* weighted_total with the weights of management efficiency and valuation swapped.
weighted_total_swapped(g, m, e, val, ins, sen) ==
      g.score * W_growth_quality
    + m.score * W_margins_stability
    + e.score * W_valuation
    + val.score * W_management_efficiency
    + ins.score * W_insider_activity
    + sen.score * W_sentiment

\* total_score of agent.py 119-126, times ScoreUnit * WeightUnit
weighted_total(g, m, e, val, ins, sen) ==
      g.score * W_growth_quality
    + m.score * W_margins_stability
    + e.score * W_management_efficiency
    + val.score * W_valuation
    + ins.score * W_insider_activity
    + sen.score * W_sentiment

\* 7.5 and 4.5 on the scale of weighted_total
BullishThreshold == (75 * ScoreUnit * WeightUnit) \div 10

BearishThreshold == (45 * ScoreUnit * WeightUnit) \div 10

\* signal_of with strict comparisons.
signal_of_strict(total_score) ==
    IF total_score > BullishThreshold THEN "bullish"
    ELSE IF total_score < BearishThreshold THEN "bearish"
    ELSE "neutral"

signal_of(total_score) ==
    IF total_score >= BullishThreshold THEN "bullish"
    ELSE IF total_score <= BearishThreshold THEN "bearish"
    ELSE "neutral"

\* analysis_data[ticker] of agent.py 135-145
composite_result(g, m, e, val, ins, sen) ==
    LET total_score == weighted_total(g, m, e, val, ins, sen)
    IN [signal |-> signal_of(total_score),
        score |-> total_score,
        max_score |-> 10,
        growth_quality |-> g,
        margins_stability |-> m,
        management_efficiency |-> e,
        valuation_analysis |-> val,
        insider_activity |-> ins,
        sentiment_analysis |-> sen]

---------------------------------------------------------------------------
(* update_preloaded_cache *)

InputKeys == <<"financial_line_items", "market_cap", "insider_trades", "company_news">>

\* update_preloaded_cache reading the valuation result under the key "valuation".
update_preloaded_cache_valuation_key(ticker, raw, analysis_results, cache) ==
    LET cache_entry ==
            [financial_line_items |-> Get(raw, "financial_line_items"),
             market_cap |-> Get(raw, "market_cap"),
             insider_trades |-> Get(raw, "insider_trades"),
             company_news |-> Get(raw, "company_news"),
             analysis_data |->
                [signal |-> Get(analysis_results, "signal"),
                 score |-> Get(analysis_results, "score"),
                 max_score |-> 10,
                 growth_quality |-> Get(analysis_results, "growth_quality"),
                 margins_stability |-> Get(analysis_results, "margins_stability"),
                 management_efficiency |-> Get(analysis_results, "management_efficiency"),
                 valuation_analysis |-> Get(analysis_results, "valuation"),
                 insider_activity |-> Get(analysis_results, "insider_activity"),
                 sentiment_analysis |-> Get(analysis_results, "sentiment_analysis")],
             analysis_date |-> "utcnow"]
    IN (ticker :> cache_entry) @@ cache

\* raw is the raw_results argument.
update_preloaded_cache(ticker, raw, analysis_results, cache) ==
    LET cache_entry ==
            [financial_line_items |-> Get(raw, "financial_line_items"),
             market_cap |-> Get(raw, "market_cap"),
             insider_trades |-> Get(raw, "insider_trades"),
             company_news |-> Get(raw, "company_news"),
             analysis_data |->
                [signal |-> Get(analysis_results, "signal"),
                 score |-> Get(analysis_results, "score"),
                 max_score |-> 10,
                 growth_quality |-> Get(analysis_results, "growth_quality"),
                 margins_stability |-> Get(analysis_results, "margins_stability"),
                 management_efficiency |-> Get(analysis_results, "management_efficiency"),
                 valuation_analysis |-> Get(analysis_results, "valuation_analysis"),
                 insider_activity |-> Get(analysis_results, "insider_activity"),
                 sentiment_analysis |-> Get(analysis_results, "sentiment_analysis")],
             analysis_date |-> "utcnow"]
    IN (ticker :> cache_entry) @@ cache

\* Times phil_fisher_agent_core is entered with the same state object.
MaxRuns == 2

---------------------------------------------------------------------------
(* phil_fisher_agent_core, one iteration of "for ticker in tickers" *)

\* Lookup that asks the tool whatever the cache holds.
Lookup_always_fetch(ticker, key) ==
    [fetched |-> TRUE, value |-> remote[ticker][key]]

\* The value used for one input and whether a tool had to supply it.
Lookup(ticker, key) ==
    LET entry == IF ticker \in DOMAIN preloaded THEN preloaded[ticker] ELSE EmptyDict
        cached == Get(entry, key)
    IN [fetched |-> cached = None,
        value |-> IF cached = None THEN remote[ticker][key] ELSE cached]

ToolOf(key) ==
    CASE key = "financial_line_items" -> "search_line_items"
      [] key = "market_cap" -> "get_market_cap"
      [] key = "insider_trades" -> "get_insider_news"
      [] key = "company_news" -> "get_company_news"

ProcessTicker ==
    /\ pc = "loop"
    /\ idx <= Len(tickers)
    /\ LET ticker == tickers[idx]
           fetched_keys == SelectSeq(InputKeys, LAMBDA k : Lookup(ticker, k).fetched)
           raw == [k \in {fetched_keys[i] : i \in 1..Len(fetched_keys)} |->
                       Lookup(ticker, k).value]
           pli_ == parse_pli(Lookup(ticker, "financial_line_items").value)
           mcap_ == normalize_market_cap(Lookup(ticker, "market_cap").value)
           insiders_ == Lookup(ticker, "insider_trades").value
           news_ == Lookup(ticker, "company_news").value
           g == analyze_fisher_growth_quality(pli_)
           m == analyze_margins_stability(pli_)
           e == analyze_management_efficiency_leverage(pli_)
           val == analyze_fisher_valuation(pli_, mcap_)
           ins == analyze_insider_activity(insiders_)
           sen == analyze_sentiment(news_)
           calls == [i \in 1..Len(fetched_keys) |->
                        [tool |-> ToolOf(fetched_keys[i]), ticker |-> ticker]]
       IN /\ raw_results' = raw
          /\ pli' = pli_
          /\ mcap' = mcap_
          /\ insiders' = insiders_
          /\ news' = news_
          /\ tool_calls' = tool_calls \o calls
          /\ IF IsRaised(g) THEN
                 /\ pc' = "raised"
                 /\ error' = [exc |-> g.exc, where |-> "analyze_fisher_growth_quality"]
                 /\ UNCHANGED <<results, analysis_data, preloaded, idx>>
             ELSE IF IsRaised(val) THEN
                 /\ pc' = "raised"
                 /\ error' = [exc |-> val.exc, where |-> "analyze_fisher_valuation"]
                 /\ growth_quality' = g
                 /\ margins_stability' = m
                 /\ mgmt_efficiency' = e
                 /\ UNCHANGED <<fisher_valuation, insider_activity, sentiment_analysis,
                                analysis_data, preloaded, idx>>
             ELSE
                 LET composite == composite_result(g, m, e, val, ins, sen) IN
                 /\ growth_quality' = g
                 /\ margins_stability' = m
                 /\ mgmt_efficiency' = e
                 /\ fisher_valuation' = val
                 /\ insider_activity' = ins
                 /\ sentiment_analysis' = sen
                 /\ analysis_data' = (ticker :> composite) @@ analysis_data
                 /\ preloaded' = IF DOMAIN raw # {}
                                     THEN update_preloaded_cache(ticker, raw, composite, preloaded)
                                 ELSE preloaded
                 /\ idx' = idx + 1
                 /\ UNCHANGED <<pc, error>>
    /\ UNCHANGED <<tickers, remote, state, again, run>>

\* agent.py 153-162, after the loop
Finish ==
    /\ pc = "loop"
    /\ idx > Len(tickers)
    /\ state' = [analysis_data |-> analysis_data,
                 analyst_signals |-> ("phil_fisher_agent" :> analysis_data)]
    /\ pc' = "done"
    /\ UNCHANGED <<tickers, preloaded, remote, idx, raw_results, pli, mcap, insiders,
                   news, results, analysis_data, tool_calls, error, again, run>>

\* The six analyzers called a second time with the inputs of the ticker just
\* processed, as a caller repeating the calls of agent.py 112-117 would.
Reanalyze ==
    /\ pc = "loop"
    /\ idx > Len(tickers)
    /\ idx > 1
    /\ again = <<>>
    /\ again' = <<analyze_fisher_growth_quality(pli),
                  analyze_margins_stability(pli),
                  analyze_management_efficiency_leverage(pli),
                  analyze_fisher_valuation(pli, mcap),
                  analyze_insider_activity(insiders),
                  analyze_sentiment(news)>>
    /\ UNCHANGED <<tickers, preloaded, remote, pc, idx, raw_results, pli, mcap,
                   insiders, news, results, analysis_data, state, tool_calls, error,
                   run>>

\* phil_fisher_agent_core entered again with the state it returned:
\* agent.py 36-40 read tickers and the preloaded cache from state.data.
Rerun ==
    /\ pc = "done"
    /\ run < MaxRuns
    /\ run' = run + 1
    /\ pc' = "loop"
    /\ idx' = 1
    /\ raw_results' = EmptyDict
    /\ pli' = None
    /\ mcap' = None
    /\ insiders' = None
    /\ news' = None
    /\ growth_quality' = None
    /\ margins_stability' = None
    /\ mgmt_efficiency' = None
    /\ fisher_valuation' = None
    /\ insider_activity' = None
    /\ sentiment_analysis' = None
    /\ analysis_data' = EmptyDict
    /\ tool_calls' = <<>>
    /\ UNCHANGED <<tickers, preloaded, remote, state, error, again>>

Next == ProcessTicker \/ Finish

---------------------------------------------------------------------------
(* Inputs *)

\* Longest line-item sequence in the single-check families.
MaxItems == 3

\* Longest trade list of freely mixed trades.
MaxTrades == 3

\* Longest news list of freely mixed headlines.
MaxNews == 4

\* Longest trade list of buys followed by sells, and longest news list of
\* negative headlines followed by neutral ones.
MaxBlock == 10

Fields ==
    {"revenue", "earnings_per_share", "research_and_development",
     "operating_margin", "gross_margin", "net_income", "shareholders_equity",
     "total_debt", "free_cash_flow"}

BlankItem == [f \in Fields |-> None]

\* Items that differ from the blank item in one field.
OneField(f, values) == {[BlankItem EXCEPT ![f] = Num(x)] : x \in values}

\* Items that differ from the blank item in two fields.
TwoFields(f, g, pairs) ==
    {[BlankItem EXCEPT ![f] = p[1], ![g] = p[2]] : p \in pairs}

RevItems ==
    {BlankItem} \cup OneField("revenue", {-50, 0, 100, 110, 111, 140, 141, 180, 181})

EpsItems ==
    {BlankItem} \cup OneField("earnings_per_share", {-10, 0, 10, 11, 14, 18, 19})

RndItems ==
    TwoFields("revenue", "research_and_development",
        {<<None, None>>, <<Num(100), None>>, <<None, Num(3)>>,
         <<Num(100), Num(-1)>>, <<Num(100), Num(0)>>, <<Num(100), Num(2)>>,
         <<Num(100), Num(3)>>, <<Num(100), Num(15)>>, <<Num(100), Num(16)>>,
         <<Num(0), Num(3)>>, <<Num(0), Num(0)>>})

OpmItems == {BlankItem} \cup OneField("operating_margin", {-5, 0, 10, 12, 20})

GmItems == {BlankItem} \cup OneField("gross_margin", {30, 31, 50, 51})

RoeItems ==
    TwoFields("net_income", "shareholders_equity",
        {<<None, None>>, <<None, Num(500)>>, <<Num(-10), Num(500)>>,
         <<Num(0), Num(500)>>, <<Num(50), Num(500)>>, <<Num(51), Num(500)>>,
         <<Num(100), Num(500)>>, <<Num(101), Num(500)>>, <<Num(100), None>>,
         <<Num(100), Num(0)>>, <<Num(100), Num(-500)>>})

DteItems ==
    TwoFields("total_debt", "shareholders_equity",
        {<<None, None>>, <<None, Num(500)>>, <<Num(0), Num(500)>>,
         <<Num(149), Num(500)>>, <<Num(150), Num(500)>>, <<Num(499), Num(500)>>,
         <<Num(500), Num(500)>>, <<Num(100), None>>, <<Num(100), Num(0)>>,
         <<Num(0), Num(0)>>})

FcfItems == {BlankItem} \cup OneField("free_cash_flow", {-10, 0, 100})

\* None in place of a record, a dict with some keys missing, a dict with none.
OddItems ==
    {None, BlankItem,
     [revenue |-> Num(100), research_and_development |-> Num(5)],
     [gross_margin |-> Num(60)],
     [net_income |-> Num(100), free_cash_flow |-> None]}

ValItems ==
    TwoFields("net_income", "free_cash_flow",
        {<<None, None>>, <<Num(-10), None>>, <<Num(0), None>>, <<Num(100), None>>,
         <<None, Num(100)>>, <<Num(100), Num(100)>>, <<Num(100), Num(-10)>>})

NumericCaps == {Num(1999), Num(2000), Num(2999), Num(3000)}

StringCaps ==
    {NumText(1999), JsonCapText(2999), JsonNoCapText, JsonBadCapText, PlainText(3)}

Dataset(p, c, t, n) ==
    [financial_line_items |-> p, market_cap |-> c, insider_trades |-> t,
     company_news |-> n]

\* One sub-check at a time: line items of one family, everything else plain.
LineItemFamilies ==
    {RevItems, EpsItems, RndItems, OpmItems, GmItems, RoeItems, DteItems, FcfItems,
     OddItems}

LineItemDataset(s) == Dataset(List(s), Num(2000), List(<<>>), List(<<>>))

\* The shapes a tool result can have besides a list and a number.
ShapeDatasets ==
    {Dataset(p, c, List(<<>>), List(<<>>)) :
        p \in {List(<<>>),
               List(<<[BlankItem EXCEPT !.net_income = Num(100)]>>),
               List(<<[BlankItem EXCEPT !.free_cash_flow = Num(100)]>>),
               List(<<[BlankItem EXCEPT !.net_income = Num(-10)]>>),
               List(<<[BlankItem EXCEPT !.net_income = Num(0)],
                      [BlankItem EXCEPT !.net_income = Num(100)]>>),
               JsonText(<<[BlankItem EXCEPT !.net_income = Num(100)]>>),
               PlainText(3), None},
        c \in StringCaps \cup {None, Num(1999)}}

Trade(x) == [transaction_shares |-> x]

TradeItems == {None, Trade(None), Trade(Num(0)), Trade(Num(10)), Trade(Num(-1))}

\* k buys followed by n - k sells
TradeBlock(k, n) ==
    [i \in 1..n |-> IF i <= k THEN Trade(Num(10)) ELSE Trade(Num(-1))]

TradeDataset(t) == Dataset(List(<<>>), None, t, List(<<>>))

News(cs) == [title |-> Text(cs)]

LawsuitTitle == <<"C", "o", "m", "p", "a", "n", "y", " ", "a", "n", "n", "o", "u", "n", "c", "e", "s", " ", "l", "a", "w", "s", "u", "i", "t">>

GreatTitle == <<"G", "r", "e", "a", "t", " ", "q", "u", "a", "r", "t", "e", "r">>

FraudTitle == <<"F", "R", "A", "U", "D", " ", "p", "r", "o", "b", "e">>

DeclinedTitle == <<"S", "a", "l", "e", "s", " ", "d", "e", "c", "l", "i", "n", "e", "d">>

SplitTitle == <<"L", "a", "w", " ", "s", "u", "i", "t", " ", "r", "e", "-", "c", "a", "l", "l", "e", "d">>

NewsItems ==
    {[title |-> None], News(LawsuitTitle), News(GreatTitle), News(FraudTitle),
     News(DeclinedTitle), News(SplitTitle)}

\* None in place of a record, an empty headline, a dict without "title".
OddNewsItems == {None, News(<<>>), [url |-> None], News(LawsuitTitle)}

\* k negative headlines followed by n - k neutral ones
NewsBlock(k, n) ==
    [i \in 1..n |-> IF i <= k THEN News(LawsuitTitle) ELSE News(GreatTitle)]

NewsDataset(n) == Dataset(List(<<>>), None, List(<<>>), n)

---------------------------------------------------------------------------
(* Three-period companies put together from a growth profile, a margin
   profile and an earnings profile, so that all six analyzers score at once *)

\* The line items whose columns are the sequences of cols.
Rows(cols) == [i \in 1..3 |-> [f \in DOMAIN cols |-> cols[f][i]]]

Nums(a, b, c) == <<Num(a), Num(b), Num(c)>>

Nones == <<None, None, None>>

GrowthProfiles ==
    {[revenue |-> Nums(200, 150, 100), earnings_per_share |-> Nums(20, 15, 10),
      research_and_development |-> Nums(20, 15, 10)],
     [revenue |-> Nums(150, 120, 100), earnings_per_share |-> Nums(10, 10, 10),
      research_and_development |-> Nums(15, 12, 10)],
     [revenue |-> Nones, earnings_per_share |-> Nones,
      research_and_development |-> Nones]}

MarginProfiles ==
    {[operating_margin |-> Nums(20, 20, 20), gross_margin |-> Nums(60, 60, 60)],
     [operating_margin |-> Nums(15, 20, 20), gross_margin |-> Nums(40, 40, 40)],
     [operating_margin |-> Nones, gross_margin |-> Nones]}

EarningsProfiles ==
    {[net_income |-> Nums(100, 90, 80), shareholders_equity |-> Nums(400, 400, 400),
      total_debt |-> Nums(100, 100, 100), free_cash_flow |-> Nums(50, 50, 50)],
     [net_income |-> <<Num(100), None, None>>,
      shareholders_equity |-> <<Num(400), None, None>>,
      total_debt |-> Nones, free_cash_flow |-> Nones],
     [net_income |-> <<Num(100), None, None>>, shareholders_equity |-> Nones,
      total_debt |-> Nones, free_cash_flow |-> Nums(50, -1, -1)],
     [net_income |-> Nones, shareholders_equity |-> Nones,
      total_debt |-> Nones, free_cash_flow |-> Nones]}

Companies ==
    {List(Rows(g @@ m @@ e)) :
        g \in GrowthProfiles, m \in MarginProfiles, e \in EarningsProfiles}

CompanyDatasets ==
    {Dataset(p, c, t, n) :
        p \in Companies,
        c \in {None, Num(900), Num(2500)},
        t \in {List(<<>>), List(<<Trade(Num(10))>>), List(<<Trade(Num(-1))>>),
               List(<<Trade(Num(10)), Trade(Num(-1))>>)},
        n \in {List(<<>>), List(<<News(LawsuitTitle)>>), List(<<News(GreatTitle)>>),
               List(NewsBlock(1, 4))}}

---------------------------------------------------------------------------
(* Specification: one run of phil_fisher_agent_core over one ticker whose data
   either comes from the tools or is already in the preloaded cache *)

NoData == Dataset(None, None, None, None)

InitLocals ==
    /\ pc = "loop"
    /\ idx = 1
    /\ raw_results = EmptyDict
    /\ pli = None
    /\ mcap = None
    /\ insiders = None
    /\ news = None
    /\ growth_quality = None
    /\ margins_stability = None
    /\ mgmt_efficiency = None
    /\ fisher_valuation = None
    /\ insider_activity = None
    /\ sentiment_analysis = None
    /\ analysis_data = EmptyDict
    /\ state = [analysis_data |-> None, analyst_signals |-> None]
    /\ tool_calls = <<>>
    /\ error = None
    /\ again = <<>>
    /\ run = 1

\* Nothing preloaded: every input of the ticker is fetched and is ds.
Fetched(ds) ==
    /\ tickers = <<"AAPL">>
    /\ preloaded = EmptyDict
    /\ remote = [t \in {"AAPL"} |-> ds]
    /\ InitLocals

InitFetched ==
    \/ \E F \in LineItemFamilies : \E k \in 0..MaxItems : \E s \in [1..k -> F] :
           Fetched(LineItemDataset(s))
    \/ \E k \in 0..MaxItems : \E s \in [1..k -> ValItems] :
           \E c \in NumericCaps \cup {None} :
               Fetched(Dataset(List(s), c, List(<<>>), List(<<>>)))
    \/ \E ds \in ShapeDatasets : Fetched(ds)
    \/ \E k \in 0..MaxTrades : \E s \in [1..k -> TradeItems] :
           Fetched(TradeDataset(List(s)))
    \/ \E n \in 0..MaxBlock : \E k \in 0..n : Fetched(TradeDataset(List(TradeBlock(k, n))))
    \/ Fetched(TradeDataset(None))
    \/ \E k \in 0..MaxNews : \E s \in [1..k -> NewsItems] :
           Fetched(NewsDataset(List(s)))
    \/ \E k \in 0..2 : \E s \in [1..k -> OddNewsItems] :
           Fetched(NewsDataset(List(s)))
    \/ \E n \in 0..MaxBlock : \E k \in 0..n : Fetched(NewsDataset(List(NewsBlock(k, n))))
    \/ Fetched(NewsDataset(None))
    \/ \E ds \in CompanyDatasets : Fetched(ds)

\* Everything preloaded: no input is fetched.
InitPreloaded ==
    /\ tickers = <<"AAPL">>
    /\ \E ds \in CompanyDatasets \cup ShapeDatasets :
           /\ \A i \in 1..Len(InputKeys) : ds[InputKeys[i]] # None
           /\ preloaded = [t \in {"AAPL"} |-> ds]
    /\ remote = [t \in {"AAPL"} |-> NoData]
    /\ InitLocals

Init == InitFetched \/ InitPreloaded

Spec == Init /\ [][Next]_vars

\* The same run with the analyzers called twice on the ticker's inputs.
RepeatNext == ProcessTicker \/ Reanalyze \/ Finish

RepeatSpec == Init /\ [][RepeatNext]_vars

---------------------------------------------------------------------------
(* Specification of the cache: two tickers, each with any part of its four
   inputs preloaded, and the agent entered up to MaxRuns times *)

KeySet == {InputKeys[i] : i \in 1..Len(InputKeys)}

\* What the cache holds where it holds something.
CachedData ==
    Dataset(List(<<[BlankItem EXCEPT !.net_income = Num(100)], BlankItem>>),
            Num(2500), List(<<Trade(Num(10))>>), List(<<News(GreatTitle)>>))

\* What the tools return: newer data, with or without insider trades.
RemoteDatas ==
    {Dataset(List(<<[BlankItem EXCEPT !.net_income = Num(80)], BlankItem>>),
             Num(900), t, List(<<News(LawsuitTitle)>>)) :
        t \in {List(<<Trade(Num(-1))>>), None}}

\* A cache entry with the inputs of mask; the others are null when padded
\* and missing otherwise.
CacheEntry(mask, padded) ==
    [k \in (IF padded THEN KeySet ELSE mask) |->
        IF k \in mask THEN CachedData[k] ELSE None]

CacheEntries == {CacheEntry(mask, padded) : mask \in SUBSET KeySet, padded \in BOOLEAN}

CacheInit ==
    /\ tickers = <<"AAPL", "MSFT">>
    /\ \E T \in SUBSET {"AAPL", "MSFT"} : preloaded \in [T -> CacheEntries]
    /\ remote \in [{"AAPL", "MSFT"} -> RemoteDatas]
    /\ InitLocals

CacheNext == ProcessTicker \/ Finish \/ Rerun

CacheSpec == CacheInit /\ [][CacheNext]_vars

---------------------------------------------------------------------------
(* Properties *)

\* The loop body has run for the ticker: it completed or it raised.
Ran == pc # "loop" \/ idx > 1

\* The loop body completed for the ticker.
Completed == idx > 1

\* The composite result of the ticker processed last.
Last == analysis_data[tickers[idx - 1]]

CategoryResults ==
    <<growth_quality, margins_stability, mgmt_efficiency, fisher_valuation,
      insider_activity, sentiment_analysis>>

\* The inputs are of the kinds the engine's contract names: a sequence of line
\* items, a numeric or null market cap, a trade list and a news list.
WellTypedInputs ==
    /\ pli.kind = "list"
    /\ mcap.kind \in {"none", "num"}
    /\ insiders.kind \in {"none", "list"}
    /\ news.kind \in {"none", "list"}

\* C1: for every sequence of line items, numeric or null market cap, trade
\* list and news list, each of the six category scores lies in [0, 10] and so
\* does the composite score.
C1_ScoresInRange ==
    (Ran /\ WellTypedInputs) =>
        /\ Completed
        /\ \A i \in 1..6 :
               /\ CategoryResults[i].score >= 0
               /\ CategoryResults[i].score <= 10 * ScoreUnit
        /\ Last.score >= 0
        /\ Last.score <= 10 * ScoreUnit * WeightUnit

\* A company with the top growth score, a zero valuation score and a
\* composite strictly between the ends of the range.
C1_Witness ==
    /\ Completed
    /\ WellTypedInputs
    /\ growth_quality.score = 10 * ScoreUnit
    /\ fisher_valuation.score = 0
    /\ Last.score > 0
    /\ Last.score < 10 * ScoreUnit * WeightUnit

\* C2: the composite stored under "score" is growth_quality * 0.30 +
\* margins_stability * 0.25 + management_efficiency * 0.20 + valuation * 0.15 +
\* insider_activity * 0.05 + sentiment * 0.05 of the six stored category
\* scores, and the six weights sum to 1.
C2_CompositeIsWeightedSum ==
    /\ W_growth_quality + W_margins_stability + W_management_efficiency
           + W_valuation + W_insider_activity + W_sentiment = WeightUnit
    /\ Completed =>
           /\ Last.score =
                    30 * Last.growth_quality.score
                  + 25 * Last.margins_stability.score
                  + 20 * Last.management_efficiency.score
                  + 15 * Last.valuation_analysis.score
                  +  5 * Last.insider_activity.score
                  +  5 * Last.sentiment_analysis.score
           /\ Last.growth_quality = growth_quality
           /\ Last.margins_stability = margins_stability
           /\ Last.management_efficiency = mgmt_efficiency
           /\ Last.valuation_analysis = fisher_valuation
           /\ Last.insider_activity = insider_activity
           /\ Last.sentiment_analysis = sentiment_analysis

\* All six categories contribute, management efficiency and valuation with
\* different scores.
C2_Witness ==
    /\ Completed
    /\ \A i \in 1..6 : CategoryResults[i].score > 0
    /\ mgmt_efficiency.score # fisher_valuation.score
    /\ growth_quality.score # margins_stability.score

\* C3: the signal is decided by the composite alone: bullish from 7.5 up,
\* bearish from 4.5 down, neutral in between, the two thresholds included.
C3_SignalFromComposite ==
    Completed =>
        /\ Last.signal \in {"bullish", "bearish", "neutral"}
        /\ (Last.signal = "bullish") <=> (10 * Last.score >= 75 * ScoreUnit * WeightUnit)
        /\ (Last.signal = "bearish") <=> (10 * Last.score <= 45 * ScoreUnit * WeightUnit)
        /\ (Last.signal = "neutral") <=>
               /\ 10 * Last.score < 75 * ScoreUnit * WeightUnit
               /\ 10 * Last.score > 45 * ScoreUnit * WeightUnit

\* A composite of exactly 7.5, signalled bullish.
C3_Witness ==
    /\ Completed
    /\ 10 * Last.score = 75 * ScoreUnit * WeightUnit
    /\ Last.signal = "bullish"

\* A composite of exactly 4.5, signalled bearish.
BearishAtThreshold ==
    /\ Completed
    /\ 10 * Last.score = 45 * ScoreUnit * WeightUnit
    /\ Last.signal = "bearish"

IsCategoryResult(r) ==
    /\ DOMAIN r = {"score", "details"}
    /\ r.score \in Int
    /\ Len(r.details) >= 1

\* C4: no analyzer raises on data-quality grounds: for any line-item sequence
\* (empty, with None items, with fields missing or null), any trade list and
\* any news list, all six analyzers return a score and details, and the
\* composite of the ticker exists.
C4_NoRaiseOnDataQuality ==
    (Ran /\ WellTypedInputs) =>
        /\ pc # "raised"
        /\ error = None
        /\ \A i \in 1..6 : IsCategoryResult(CategoryResults[i])
        /\ tickers[idx - 1] \in DOMAIN analysis_data
        /\ Last.score \in Int

\* A None item and a dict with missing keys among the line items, no market
\* cap: the valuation degrades, growth still scores, the composite exists.
C4_Witness ==
    /\ Completed
    /\ WellTypedInputs
    /\ \E i \in 1..Len(pli.items) : pli.items[i] = None
    /\ \E i \in 1..Len(pli.items) :
           pli.items[i] # None /\ DOMAIN pli.items[i] # Fields
    /\ growth_quality.score > 0
    /\ mgmt_efficiency.details # <<"mgmt_no_data">>
    /\ Last.score > 0

---------------------------------------------------------------------------
(* What the properties below read off the inputs, independently of the
   analyzers *)

\* The record carries a non-null value under f.
HasValue(item, f) ==
    /\ item # None
    /\ "kind" \notin DOMAIN item
    /\ f \in DOMAIN item
    /\ item[f] # None

\* The positions of the items that carry a non-null f.
Present(items, f) == {i \in 1..Len(items) : HasValue(items[i], f)}

\* The latest (first) and the oldest (last) non-null f.
Latest(items, f) ==
    items[CHOOSE i \in Present(items, f) : \A j \in Present(items, f) : i <= j][f].val

Oldest(items, f) ==
    items[CHOOSE i \in Present(items, f) : \A j \in Present(items, f) : i >= j][f].val

\* C5 as stated: with a market cap that is still a string after the agent's
\* normalisation and a positive latest net income or free cash flow, the
\* valuation analyzer returns a zero / insufficient-data result, not an error.
C5_StringCapDegrades ==
    ( /\ Ran
      /\ pli.kind = "list"
      /\ IsStr(mcap)
      /\ \E f \in {"net_income", "free_cash_flow"} :
             Present(pli.items, f) # {} /\ Latest(pli.items, f) > 0 )
    => /\ pc # "raised"
       /\ fisher_valuation.score = 0

\* Points the claim gives a price multiple market_cap / base.
MultiplePoints(items, f) ==
    IF Present(items, f) = {} THEN 0
    ELSE IF Latest(items, f) <= 0 THEN 0
    ELSE IF mcap.val < 20 * Latest(items, f) THEN 2
    ELSE IF mcap.val < 30 * Latest(items, f) THEN 1
    ELSE 0

\* C6: the valuation analyzer returns score 0 with the insufficient-data
\* detail when market_cap is null or there are no line items; otherwise P/E
\* and P/FCF each give +2 below 20, +1 below 30, 0 otherwise, and nothing when
\* the latest net income (free cash flow) is absent or not positive; the score
\* is the points over 4, times 10.
C6_ValuationBands ==
    (Ran /\ pli.kind = "list" /\ mcap.kind \in {"none", "num"}) =>
        /\ Completed
        /\ IF mcap = None \/ pli.items = <<>>
               THEN fisher_valuation = Result(0, <<"valuation_insufficient_data">>)
           ELSE /\ fisher_valuation.score * 4 =
                       ( MultiplePoints(pli.items, "net_income")
                       + MultiplePoints(pli.items, "free_cash_flow") ) * 10 * ScoreUnit
                /\ Len(fisher_valuation.details) = 2

\* P/E exactly 20 behind a null latest period: +1, and no P/FCF points.
C6_Witness ==
    /\ Completed
    /\ pli.kind = "list"
    /\ mcap = Num(2000)
    /\ Len(pli.items) >= 2
    /\ ~HasValue(pli.items[1], "net_income")
    /\ Present(pli.items, "net_income") # {}
    /\ Latest(pli.items, "net_income") = 100
    /\ Present(pli.items, "free_cash_flow") # {}
    /\ Latest(pli.items, "free_cash_flow") < 0
    /\ fisher_valuation.score * 4 = 10 * ScoreUnit

\* The record carries some non-null value.
HasAnyValue(item) == \E f \in Fields : HasValue(item, f)

InsufficientGrowth == Result(0, <<"growth_insufficient_data">>)

InsufficientMargins == Result(0, <<"margins_insufficient_data">>)

\* C7 as stated: when fewer than 2 of the line items carry any non-null
\* value, the growth and the margin analyzer return score 0, insufficient data.
C7_FewValuedItemsScoreZero ==
    ( /\ Completed
      /\ pli.kind = "list"
      /\ Cardinality({i \in 1..Len(pli.items) : HasAnyValue(pli.items[i])}) < 2 )
    => /\ growth_quality = InsufficientGrowth
       /\ margins_stability = InsufficientMargins

\* C7 amended: when fewer than 2 line items are supplied, whatever they
\* carry, the growth and the margin analyzer return score 0, insufficient data.
C7_FewItemsScoreZero ==
    (Completed /\ pli.kind = "list" /\ Len(pli.items) < 2)
    => /\ growth_quality = InsufficientGrowth
       /\ margins_stability = InsufficientMargins

\* A single line item with revenue and R&D, scored 0.
C7_Witness ==
    /\ Completed
    /\ pli.kind = "list"
    /\ Len(pli.items) = 1
    /\ HasValue(pli.items[1], "revenue")
    /\ HasValue(pli.items[1], "research_and_development")
    /\ growth_quality = InsufficientGrowth
    /\ margins_stability = InsufficientMargins

\* Revenue points the claim awards.
RevenuePoints(items) ==
    IF Cardinality(Present(items, "revenue")) < 2 THEN 0
    ELSE LET latest == Latest(items, "revenue")
             oldest == Oldest(items, "revenue")
         IN IF oldest <= 0 THEN 0
            ELSE IF 100 * (latest - oldest) > 80 * oldest THEN 3
            ELSE IF 100 * (latest - oldest) > 40 * oldest THEN 2
            ELSE IF 100 * (latest - oldest) > 10 * oldest THEN 1
            ELSE 0

RevenueMessages(points) ==
    CASE points = 3 -> {"rev_very_strong"}
      [] points = 2 -> {"rev_moderate"}
      [] points = 1 -> {"rev_slight"}
      [] points = 0 -> {"rev_minimal_or_negative", "rev_oldest_zero_or_negative",
                        "rev_not_enough_points"}

\* C8: revenue growth is (first non-null revenue - last non-null revenue) /
\* |last non-null revenue|, whatever lies between; exactly one band is
\* awarded, with strict comparisons (> 0.80: +3, > 0.40: +2, > 0.10: +1, else
\* 0); nothing is awarded when the oldest revenue is <= 0 or there are fewer
\* than 2 revenue points.
C8_RevenueGrowthBands ==
    (Completed /\ pli.kind = "list" /\ Len(pli.items) >= 2) =>
        /\ growth_quality.details[1] \in RevenueMessages(RevenuePoints(pli.items))
        /\ ( /\ Present(pli.items, "earnings_per_share") = {}
             /\ Present(pli.items, "research_and_development") = {} )
           => growth_quality.score * 9 = RevenuePoints(pli.items) * 10 * ScoreUnit

\* Revenues 180 and 100 around a larger intermediate one: growth of exactly
\* 0.80, two points.
C8_Witness ==
    /\ Completed
    /\ pli.kind = "list"
    /\ Len(pli.items) = 3
    /\ \A i \in 1..3 : HasValue(pli.items[i], "revenue")
    /\ pli.items[1].revenue.val = 180
    /\ pli.items[2].revenue.val = 181
    /\ pli.items[3].revenue.val = 100
    /\ growth_quality.details[1] = "rev_moderate"
    /\ growth_quality.score * 9 = 2 * 10 * ScoreUnit

\* Trades with positive and with negative transaction_shares.
Buys(trades) ==
    Cardinality({i \in 1..Len(trades) :
        HasValue(trades[i], "transaction_shares") /\ trades[i].transaction_shares.val > 0})

Sells(trades) ==
    Cardinality({i \in 1..Len(trades) :
        HasValue(trades[i], "transaction_shares") /\ trades[i].transaction_shares.val < 0})

InsiderScore(trades) ==
    LET buys == Buys(trades)
        sells == Sells(trades)
    IN IF buys + sells = 0 THEN 5
       ELSE IF 10 * buys > 7 * (buys + sells) THEN 8
       ELSE IF 10 * buys > 4 * (buys + sells) THEN 6
       ELSE 4

\* C9: the insider score is 5 when there is no trade or every trade has zero
\* or null shares; otherwise, over the trades with non-zero shares only, it is
\* 8 when buys / (buys + sells) > 0.7, 6 when > 0.4, and 4 otherwise.
C9_InsiderBands ==
    (Completed /\ insiders.kind \in {"none", "list"}) =>
        insider_activity.score =
            ScoreUnit * (IF insiders = None THEN 5 ELSE InsiderScore(insiders.items))

\* Three buys and one sell: 0.75, score 8.
C9_Witness ==
    /\ Completed
    /\ insiders.kind = "list"
    /\ Len(insiders.items) = 4
    /\ Buys(insiders.items) = 3
    /\ Sells(insiders.items) = 1
    /\ insider_activity.score = 8 * ScoreUnit

\* A buy beside trades of zero and null shares: the ratio is 1 / 1, score 8.
IgnoredTradesLeaveDenominator ==
    /\ Completed
    /\ insiders.kind = "list"
    /\ Len(insiders.items) = 3
    /\ Buys(insiders.items) = 1
    /\ Sells(insiders.items) = 0
    /\ insider_activity.score = 8 * ScoreUnit

\* The headlines of the inputs that contain one of the seven keywords,
\* whatever the case: "lawsuit", "FRAUD", "declined".
NegativeTitles == {LawsuitTitle, FraudTitle, DeclinedTitle}

NegativeCount(items) ==
    Cardinality({i \in 1..Len(items) :
        HasValue(items[i], "title") /\ items[i].title.chars \in NegativeTitles})

SentimentScore(items) ==
    IF Len(items) = 0 THEN 5
    ELSE IF 10 * NegativeCount(items) > 3 * Len(items) THEN 3
    ELSE IF NegativeCount(items) > 0 THEN 6
    ELSE 8

\* C10: the sentiment score is 5 without news; otherwise, with negative_count
\* the number of items whose title contains a keyword (case-insensitive,
\* substring) and total the number of items, null titles included, it is 3
\* when negative_count / total > 0.3, 6 when 0 < negative_count / total <=
\* 0.3, and 8 when negative_count = 0.
C10_SentimentBands ==
    (Completed /\ news.kind \in {"none", "list"}) =>
        sentiment_analysis.score =
            ScoreUnit * (IF news = None THEN 5 ELSE SentimentScore(news.items))

\* Three negative headlines out of ten: exactly 0.3, score 6.
C10_Witness ==
    /\ Completed
    /\ news.kind = "list"
    /\ Len(news.items) = 10
    /\ NegativeCount(news.items) = 3
    /\ sentiment_analysis.score = 6 * ScoreUnit

\* One negative headline in upper case among four items, one of them with a
\* null title: 0.25, score 6.
NullTitleCountsInTotal ==
    /\ Completed
    /\ news.kind = "list"
    /\ Len(news.items) = 4
    /\ \E i \in 1..4 : news.items[i] = [title |-> None]
    /\ \E i \in 1..4 : news.items[i] = News(FraudTitle)
    /\ NegativeCount(news.items) = 1
    /\ sentiment_analysis.score = 6 * ScoreUnit

\* ROE points the claim awards.  An equity of 0 is replaced by 1e-9 in the
\* code, which puts any positive net income in the top band.
RoePoints(items) ==
    IF Present(items, "net_income") = {} \/ Present(items, "shareholders_equity") = {}
        THEN 0
    ELSE IF Cardinality(Present(items, "net_income"))
                # Cardinality(Present(items, "shareholders_equity")) THEN 0
    ELSE LET ni == Latest(items, "net_income")
             eq == Latest(items, "shareholders_equity")
         IN IF ni <= 0 THEN 0
            ELSE IF eq = 0 THEN 3
            ELSE IF eq < 0 THEN 0
            ELSE IF 10 * ni > 2 * eq THEN 3
            ELSE IF 10 * ni > eq THEN 2
            ELSE 1

RoeMessages(points) ==
    CASE points = 3 -> {"roe_high"}
      [] points = 2 -> {"roe_moderate"}
      [] points = 1 -> {"roe_low_positive"}
      [] points = 0 -> {"roe_near_zero_or_negative", "roe_net_income_not_positive",
                        "roe_insufficient"}

\* C11: the management-efficiency analyzer returns its no-data result only
\* for an empty sequence and analyses a single line item; ROE points are
\* awarded only when the non-null net_income and shareholders_equity lists are
\* non-empty and of equal length and the latest net income is > 0, with strict
\* bands (> 0.2: +3, > 0.1: +2, > 0: +1).
C11_RoeBands ==
    (Completed /\ pli.kind = "list") =>
        IF pli.items = <<>> THEN mgmt_efficiency = Result(0, <<"mgmt_no_data">>)
        ELSE /\ Len(mgmt_efficiency.details) = 3
             /\ mgmt_efficiency.details[1] \in RoeMessages(RoePoints(pli.items))
             /\ ( /\ Present(pli.items, "total_debt") = {}
                  /\ Present(pli.items, "free_cash_flow") = {} )
                => mgmt_efficiency.score * 6 = RoePoints(pli.items) * 10 * ScoreUnit

\* A single item with net_income 100 and shareholders_equity 500: ROE of
\* exactly 0.2, two points.
C11_Witness ==
    /\ Completed
    /\ pli.kind = "list"
    /\ Len(pli.items) = 1
    /\ HasValue(pli.items[1], "net_income")
    /\ HasValue(pli.items[1], "shareholders_equity")
    /\ pli.items[1].net_income.val = 100
    /\ pli.items[1].shareholders_equity.val = 500
    /\ mgmt_efficiency.details[1] = "roe_moderate"
    /\ mgmt_efficiency.score * 6 = 2 * 10 * ScoreUnit

\* The first detail the claim gives the operating-margin trend check.
TrendMessage(items) ==
    LET newest == Latest(items, "operating_margin")
        oldest == Oldest(items, "operating_margin")
    IN IF newest >= oldest /\ oldest > 0 THEN "opm_stable_or_improving"
       ELSE IF newest > 0 /\ newest < oldest THEN "opm_positive_declined"
       ELSE "opm_negative_or_uncertain"

TrendPoints(items) ==
    CASE TrendMessage(items) = "opm_stable_or_improving" -> 2
      [] TrendMessage(items) = "opm_positive_declined" -> 1
      [] TrendMessage(items) = "opm_negative_or_uncertain" -> 0

\* C14 as stated: with at least 2 non-null operating margins the trend check
\* awards +2 exactly when newest >= oldest > 0, +1 exactly when newest > 0 and
\* newest < oldest, and +0 in every other case.
C14_TrendBands ==
    ( /\ Completed
      /\ pli.kind = "list"
      /\ Len(pli.items) >= 2
      /\ Cardinality(Present(pli.items, "operating_margin")) >= 2 )
    => /\ margins_stability.details[1] = TrendMessage(pli.items)
       /\ ( /\ Present(pli.items, "gross_margin") = {}
            /\ Cardinality(Present(pli.items, "operating_margin")) = 2 )
          => margins_stability.score * 6 = TrendPoints(pli.items) * 10 * ScoreUnit

\* R&D points the claim awards.  A latest revenue of 0 is replaced by 1e-9
\* in the code, which puts any positive R&D above 0.15.
RndPoints(items) ==
    IF Present(items, "research_and_development") = {} \/ Present(items, "revenue") = {}
        THEN 0
    ELSE IF Cardinality(Present(items, "research_and_development"))
                # Cardinality(Present(items, "revenue")) THEN 0
    ELSE LET rnd == Latest(items, "research_and_development")
             rev == Latest(items, "revenue")
         IN IF rev = 0 THEN (IF rnd > 0 THEN 2 ELSE 0)
            ELSE IF rev < 0 THEN
                (IF 100 * rnd <= 3 * rev /\ 100 * rnd >= 15 * rev THEN 3
                 ELSE IF 100 * rnd < 15 * rev THEN 2
                 ELSE IF rnd < 0 THEN 1
                 ELSE 0)
            ELSE IF 100 * rnd >= 3 * rev /\ 100 * rnd <= 15 * rev THEN 3
            ELSE IF 100 * rnd > 15 * rev THEN 2
            ELSE IF rnd > 0 THEN 1
            ELSE 0

RndMessages(points) ==
    CASE points = 3 -> {"rnd_significant"}
      [] points = 2 -> {"rnd_very_high"}
      [] points = 1 -> {"rnd_low_positive"}
      [] points = 0 -> {"rnd_not_meaningful", "rnd_insufficient"}

\* C15: the R&D check of the growth analyzer gives points only when the
\* non-null R&D values and the non-null revenues are equally many and not
\* none; then, with ratio = latest R&D / latest revenue, exactly one band:
\* +3 when 0.03 <= ratio <= 0.15, +2 when ratio > 0.15, +1 when 0 < ratio <
\* 0.03, +0 otherwise.
C15_RndBands ==
    (Completed /\ pli.kind = "list" /\ Len(pli.items) >= 2) =>
        /\ growth_quality.details[3] \in RndMessages(RndPoints(pli.items))
        /\ ( Cardinality(Present(pli.items, "research_and_development"))
                 # Cardinality(Present(pli.items, "revenue")) )
           => growth_quality.details[3] = "rnd_insufficient"
        /\ ( /\ Cardinality(Present(pli.items, "revenue")) < 2
             /\ Present(pli.items, "earnings_per_share") = {} )
           => growth_quality.score * 9 = RndPoints(pli.items) * 10 * ScoreUnit

\* R&D of 15 on a revenue of 100, the only period with either: exactly 0.15,
\* three points.
C15_Witness ==
    /\ Completed
    /\ pli.kind = "list"
    /\ Len(pli.items) >= 2
    /\ Present(pli.items, "revenue") = Present(pli.items, "research_and_development")
    /\ Cardinality(Present(pli.items, "revenue")) = 1
    /\ Latest(pli.items, "revenue") = 100
    /\ Latest(pli.items, "research_and_development") = 15
    /\ growth_quality.details[3] = "rnd_significant"
    /\ growth_quality.score * 9 = 3 * 10 * ScoreUnit

\* R&D of 3 with two revenues: the counts differ, no R&D points.
RndSkippedOnUnequalCounts ==
    /\ Completed
    /\ pli.kind = "list"
    /\ Cardinality(Present(pli.items, "research_and_development")) = 1
    /\ Cardinality(Present(pli.items, "revenue")) = 2
    /\ Latest(pli.items, "research_and_development") = 3
    /\ Latest(pli.items, "revenue") = 100
    /\ growth_quality.details[3] = "rnd_insufficient"

ResultKeys ==
    {"signal", "score", "max_score", "growth_quality", "margins_stability",
     "management_efficiency", "valuation_analysis", "insider_activity",
     "sentiment_analysis"}

\* C13: whenever update_preloaded_cache has stored the composite result of a
\* ticker, the cached analysis_data has exactly the nine result keys and under
\* each the value of the composite result computed by phil_fisher_agent_core.
C13_CachedResultIsComposite ==
    (Completed /\ raw_results # <<>>) =>
        LET cached == preloaded[tickers[idx - 1]].analysis_data
        IN /\ DOMAIN cached = ResultKeys
           /\ DOMAIN Last = ResultKeys
           /\ \A k \in ResultKeys : cached[k] = Last[k]
           /\ cached.growth_quality = growth_quality
           /\ cached.valuation_analysis = fisher_valuation
           /\ cached.score = weighted_total(growth_quality, margins_stability,
                                            mgmt_efficiency, fisher_valuation,
                                            insider_activity, sentiment_analysis)

\* A bearish result with category scores of 0 and a valuation score above 0
\* was stored.
C13_Witness ==
    /\ Completed
    /\ raw_results # <<>>
    /\ preloaded[tickers[idx - 1]].analysis_data.signal = "bearish"
    /\ preloaded[tickers[idx - 1]].analysis_data.growth_quality.score = 0
    /\ preloaded[tickers[idx - 1]].analysis_data.valuation_analysis.score > 0
    /\ Len(preloaded[tickers[idx - 1]].analysis_data.valuation_analysis.details) = 2

\* The cache entry of the ticker about to be processed, and the inputs it
\* lacks.
EntryOf(t) == IF t \in DOMAIN preloaded THEN preloaded[t] ELSE <<>>

MissingInputs(t) ==
    {k \in KeySet : k \notin DOMAIN EntryOf(t) \/ EntryOf(t)[k] = None}

\* The tool invocations the step adds.
NewCalls == SubSeq(tool_calls', Len(tool_calls) + 1, Len(tool_calls'))

\* C16: processing a ticker invokes a data tool for an input exactly when
\* that input is missing or null in the ticker's cache entry; when all four
\* inputs are cached, no tool is invoked and the cache is left unchanged.
C16_FetchOnlyMissing ==
    [][ProcessTicker =>
          /\ SubSeq(tool_calls', 1, Len(tool_calls)) = tool_calls
          /\ Len(NewCalls) = Cardinality(MissingInputs(tickers[idx]))
          /\ {NewCalls[i].tool : i \in 1..Len(NewCalls)}
                 = {ToolOf(k) : k \in MissingInputs(tickers[idx])}
          /\ \A i \in 1..Len(NewCalls) : NewCalls[i].ticker = tickers[idx]
          /\ DOMAIN raw_results' = MissingInputs(tickers[idx])
          /\ MissingInputs(tickers[idx]) = {} => preloaded' = preloaded]_vars

\* The first ticker had all four inputs cached: it was analysed on the cached
\* data, with no tool invoked and its entry as it was.
C16_Witness ==
    /\ run = 1
    /\ idx = 2
    /\ tool_calls = <<>>
    /\ raw_results = <<>>
    /\ preloaded[tickers[1]] = CachedData
    /\ pli = CachedData.financial_line_items
    /\ mcap = CachedData.market_cap
    /\ analysis_data[tickers[1]].valuation_analysis.score * 4 = 10 * ScoreUnit

\* The first ticker lacked only its market cap: one tool was invoked.
OnlyMarketCapFetched ==
    /\ run = 1
    /\ idx = 2
    /\ tool_calls = <<[tool |-> "get_market_cap", ticker |-> tickers[1]]>>
    /\ mcap = Num(900)
    /\ pli = CachedData.financial_line_items
    /\ insiders = CachedData.insider_trades

\* C17 as stated: processing a ticker leaves every input that was non-null
\* in its cache entry non-null and unchanged in the entry, also when other
\* inputs of the ticker were fetched and the cache was updated.
C17_CachedInputsKept ==
    [][ProcessTicker =>
          \A k \in KeySet \ MissingInputs(tickers[idx]) :
              /\ tickers[idx] \in DOMAIN preloaded'
              /\ k \in DOMAIN preloaded'[tickers[idx]]
              /\ preloaded'[tickers[idx]][k] = preloaded[tickers[idx]][k]]_vars

\* C17, the consequence as stated: a second run over the same tickers, all
\* of whose inputs the tools could supply, invokes no tool.
SecondRunInvokesNoTool ==
    (run = 2 /\ \A t \in DOMAIN remote : \A k \in KeySet : remote[t][k] # None)
        => tool_calls = <<>>

====
